--------------------------- MODULE Spec2Model ---------------------------
(***************************************************************************)
(* Model of turtle-graphics.js: a turtle with a position and an            *)
(* orthonormal frame (heading, normal) that draws on a shared 2D canvas.   *)
(*                                                                         *)
(* Numbers.  JavaScript numbers are modelled as exact elements of the      *)
(* field Q(sqrt 3) with the fixed denominator Scale: the pair <<r, s>>     *)
(* stands for (r + s*sqrt(3)) / Scale.  This is closed under everything    *)
(* the code computes for angles that are multiples of 90 degrees           *)
(* (sine and cosine in {-1, 0, 1}) together with the 30 degree half nose   *)
(* angle of DrawTurtle (cos = sqrt(3)/2, sin = 1/2).  Floating-point       *)
(* rounding is not modelled.                                               *)
(*                                                                         *)
(* Angles.  alpha = phi * Degree is kept in units of pi/180, so that       *)
(* Math_cos and Math_sin are tables over whole degrees.                    *)
(***************************************************************************)
EXTENDS Integers, Sequences, FiniteSets, TLC

(***************************************************************************)
(* Bounds of the model                                                     *)
(***************************************************************************)
\* angles offered to Turn, Roll and Dive: k * 90 for k in -1 .. MaxQuarter
MaxQuarter == 2
\* distances offered to Move: -MaxDist .. MaxDist
MaxDist == 1
\* a Move is offered while it keeps the turtle within MaxPos units of home
MaxPos == 1
\* with logging on, a call is offered while the log keeps at most MaxLog entries
MaxLog == 3
\* largest coordinate of the vectors handed to cross
MaxCoord == 1
\* most entries on the stack of defaults
MaxDepth == 3

Angles == { k * 90 : k \in (0 - 1)..MaxQuarter }
Dists  == (0 - MaxDist)..MaxDist
Colors == { "blue", "red" }
PenStyles == { "black", "red" }
PenWidths == { 2, 3 }
TurtleIds == { 1, 2 }

(***************************************************************************)
(* Number arithmetic (the JavaScript operators + - * / and >=)             *)
(***************************************************************************)
Scale == 2 * 3 * 5 * 7

\* the number value NaN: what arithmetic on a non-finite argument ends in
NaN == << 0, 0, 1 >>

isNaN(p) == Len(p) = 3

\* the argument NaN of a call (arguments are whole numbers; this one lies
\* outside every set of arguments a call is offered)
NaNArg == 0 - 999

Num(i) == IF i = NaNArg THEN NaN ELSE << i * Scale, 0 >>

Add(p, q) == IF isNaN(p) \/ isNaN(q) THEN NaN ELSE << p[1] + q[1], p[2] + q[2] >>

Sub(p, q) == IF isNaN(p) \/ isNaN(q) THEN NaN ELSE << p[1] - q[1], p[2] - q[2] >>

Neg(p) == IF isNaN(p) THEN NaN ELSE << 0 - p[1], 0 - p[2] >>

\* (r1 + s1 w)(r2 + s2 w) / Scale^2 with w*w = 3, brought back to denominator Scale
Mul(p, q) ==
  IF isNaN(p) \/ isNaN(q) THEN NaN
  ELSE << (p[1] * q[1] + 3 * p[2] * q[2]) \div Scale,
          (p[1] * q[2] + p[2] * q[1]) \div Scale >>

\* p / k for a whole number k
DivBy(p, k) == IF isNaN(p) THEN NaN ELSE << p[1] \div k, p[2] \div k >>

\* p >= 0, i.e. r + s*sqrt(3) >= 0; false for NaN
GeqZero(p) ==
  IF isNaN(p) THEN FALSE
  ELSE IF p[1] >= 0 /\ p[2] >= 0 THEN TRUE
  ELSE IF p[1] < 0 /\ p[2] < 0 THEN FALSE
  ELSE IF p[1] >= 0 THEN p[1] * p[1] >= 3 * p[2] * p[2]
  ELSE 3 * p[2] * p[2] >= p[1] * p[1]

\* Math.cos and Math.sin of an angle given in units of pi/180
Math_cos(alpha) ==
  IF alpha = NaNArg THEN NaN ELSE
  LET m == alpha % 360 IN
  CASE m = 0   -> Num(1)
    [] m = 30  -> << 0, Scale \div 2 >>
    [] m = 90  -> Num(0)
    [] m = 180 -> Num(-1)
    [] m = 270 -> Num(0)

Math_sin(alpha) ==
  IF alpha = NaNArg THEN NaN ELSE
  LET m == alpha % 360 IN
  CASE m = 0   -> Num(0)
    [] m = 30  -> << Scale \div 2, 0 >>
    [] m = 90  -> Num(1)
    [] m = 180 -> Num(0)
    [] m = 270 -> Num(-1)

(***************************************************************************)
(* Private constants and vector functions                                  *)
(***************************************************************************)
x == 0
y == 1
z == 2

\* the array literal [a, b, c]
Vec(a, b, c) == [ i \in x..z |-> IF i = x THEN a ELSE IF i = y THEN b ELSE c ]

\* the literal [i, j, k] of whole numbers
IntVec(i, j, k) == Vec(Num(i), Num(j), Num(k))

linear(a, u, b, v) ==
  [ c \in x..z |-> Add(Mul(a, u[c]), Mul(b, v[c])) ]

rotateNormal_cc(u, v, w, alpha) ==
  linear(Math_cos(alpha), u, Math_cos(alpha), v)

rotateNormal(u, v, w, alpha) ==
  linear(Math_cos(alpha), u, Math_sin(alpha), v)

\* variant of cross: the two products exchanged
cross_exchanged(u, v) ==
  [ c \in x..z |->
      Sub(Mul(u[(c+2) % 3], v[(c+1) % 3]), Mul(u[(c+1) % 3], v[(c+2) % 3])) ]

cross(u, v) ==
  [ c \in x..z |->
      Sub(Mul(u[(c+1) % 3], v[(c+2) % 3]), Mul(u[(c+2) % 3], v[(c+1) % 3])) ]


(***************************************************************************)
(* The drawing surface (the canvas 2D context the code draws on).          *)
(* A command is one call or property assignment made on the context.       *)
(* Its state is the current style and the stack of saved styles; the       *)
(* current path lives only while the commands of one call are run, since   *)
(* every stroke() and fill() of the code follows a beginPath() of the      *)
(* same call.                                                              *)
(***************************************************************************)
NoPoint == << << 0, 0 >>, << 0, 0 >> >>

\* a call without arguments: save, restore, beginPath, closePath, stroke, fill
Call(op) == [ op |-> op, p |-> NoPoint, s |-> "", n |-> 0 ]

\* moveTo(px, py) and lineTo(px, py)
PathTo(op, px, py) == [ op |-> op, p |-> << px, py >>, s |-> "", n |-> 0 ]

\* prop = v for the string properties strokeStyle, fillStyle, lineCap, lineJoin
SetStr(prop, v) == [ op |-> prop, p |-> NoPoint, s |-> v, n |-> 0 ]

\* lineWidth = w
SetNum(prop, w) == [ op |-> prop, p |-> NoPoint, s |-> "", n |-> w ]

\* the style of a context nobody has touched
DefaultStyle ==
  [ strokeStyle |-> "#000000", fillStyle |-> "#000000", lineWidth |-> 1,
    lineCap |-> "butt", lineJoin |-> "miter" ]

\* a style left on the context by other drawing code of the page
PageStyle ==
  [ strokeStyle |-> "green", fillStyle |-> "yellow", lineWidth |-> 5,
    lineCap |-> "square", lineJoin |-> "bevel" ]

\* what stroke() or fill() paints: the current path in the current style
Shape(kind, st) ==
  [ kind  |-> kind,
    path  |-> st.path,
    color |-> IF kind = "fill" THEN st.style.fillStyle ELSE st.style.strokeStyle,
    width |-> st.style.lineWidth,
    cap   |-> st.style.lineCap,
    join  |-> st.style.lineJoin ]

\* the effect of one command on [style, stack, path, painted, low]
\* (low: the least depth the stack of saved styles has had)
Apply(st, cmd) ==
  CASE cmd.op = "save" ->
         [ st EXCEPT !.stack = Append(@, st.style) ]
    [] cmd.op = "restore" ->
         IF st.stack = << >> THEN st
         ELSE [ st EXCEPT !.style = st.stack[Len(st.stack)],
                          !.stack = SubSeq(@, 1, Len(@) - 1),
                          !.low = IF Len(st.stack) - 1 < @ THEN Len(st.stack) - 1 ELSE @ ]
    [] cmd.op = "beginPath" ->
         [ st EXCEPT !.path = << >> ]
    [] cmd.op = "moveTo" ->
         [ st EXCEPT !.path = Append(@, [ pts |-> << cmd.p >>, closed |-> FALSE ]) ]
    [] cmd.op = "lineTo" ->
         IF st.path = << >>
         THEN [ st EXCEPT !.path = << [ pts |-> << cmd.p >>, closed |-> FALSE ] >> ]
         ELSE [ st EXCEPT !.path[Len(st.path)].pts = Append(@, cmd.p) ]
    [] cmd.op = "closePath" ->
         IF st.path = << >> THEN st
         ELSE [ st EXCEPT !.path[Len(st.path)].closed = TRUE ]
    [] cmd.op = "stroke" ->
         [ st EXCEPT !.painted = Append(@, Shape("stroke", st)) ]
    [] cmd.op = "fill" ->
         [ st EXCEPT !.painted = Append(@, Shape("fill", st)) ]
    [] cmd.op = "strokeStyle" -> [ st EXCEPT !.style.strokeStyle = cmd.s ]
    [] cmd.op = "fillStyle"   -> [ st EXCEPT !.style.fillStyle = cmd.s ]
    [] cmd.op = "lineCap"     -> [ st EXCEPT !.style.lineCap = cmd.s ]
    [] cmd.op = "lineJoin"    -> [ st EXCEPT !.style.lineJoin = cmd.s ]
    [] cmd.op = "lineWidth"   -> [ st EXCEPT !.style.lineWidth = cmd.n ]

\* the commands cs[i..j] run in order from state st.  The range is halved and
\* the state after the first half is computed (its low is read) before the
\* second half is entered, which keeps the evaluation shallow.
RECURSIVE RunFrom(_, _, _, _)
RunFrom(st, cs, i, j) ==
  IF i > j THEN st
  ELSE IF i = j THEN Apply(st, cs[i])
  ELSE LET m   == (i + j) \div 2
           mid == RunFrom(st, cs, i, m)
       IN IF mid.low >= 0 THEN RunFrom(mid, cs, m + 1, j) ELSE mid

\* the commands out run on context c (out is computed once, then run)
Run(c, out) ==
  CHOOSE st \in { RunFrom([ style |-> c.style, stack |-> c.stack, path |-> << >>,
                            painted |-> << >>, low |-> Len(c.stack) ],
                          cs, 1, Len(cs)) : cs \in { out } } : TRUE

(***************************************************************************)
(* Turtle objects.  A turtle is the record of its public properties; its   *)
(* context is the shared drawing surface.  A method is an operator from    *)
(* the turtle before the call (and the arguments) to                       *)
(*   self   the turtle after the call,                                     *)
(*   out    the commands the call issues on the surface, in order,         *)
(*   global TRUE when the call assigns the turtle to the global variable   *)
(*          named turtle.                                                  *)
(***************************************************************************)
\* the canvas element of the usage example
canvas == [ width |-> 400, height |-> 300 ]

\* one log line: the method's name and its argument as printed
Entry(op, n, s) == [ op |-> op, n |-> n, s |-> s ]

\* variant of Logged: the entry is put in front of the log
Logged_front(tu, e) == IF tu.logging THEN [ tu EXCEPT !.log = << e >> \o @ ] ELSE tu

\* if ( logging ) { log += ... }
Logged(tu, e) == IF tu.logging THEN [ tu EXCEPT !.log = Append(@, e) ] ELSE tu

Result(tu, out) == [ self |-> tu, out |-> out, global |-> FALSE ]

Home_keep(tu) ==
  Result([ Logged(tu, Entry("Home", 0, "")) EXCEPT
             !.heading = IntVec(0, 1, 0),
             !.normal  = IntVec(0, 0, 1) ],
         << >>)

Home(tu) ==
  Result([ Logged(tu, Entry("Home", 0, "")) EXCEPT
             !.position = tu.home,
             !.heading  = IntVec(0, 1, 0),
             !.normal   = IntVec(0, 0, 1) ],
         << >>)

\* the loop of Init over the characters of options.origin, from the i-th on;
\* o = << x0, y0 >>
RECURSIVE Origin(_, _, _)
Origin(o, origin, i) ==
  IF i > Len(origin) THEN o
  ELSE LET ch == origin[i] IN
       Origin(CASE ch = "t" -> << Num(0), o[2] >>
                [] ch = "m" -> << DivBy(Num(canvas.height), 2), o[2] >>
                [] ch = "b" -> << Num(canvas.height), o[2] >>
                [] ch = "l" -> << o[1], Num(0) >>
                [] ch = "c" -> << o[1], DivBy(Num(canvas.width), 2) >>
                [] ch = "r" -> << o[1], Num(canvas.width) >>
                [] OTHER    -> o,
              origin, i + 1)

\* new Turtle(options) with the defaults stack defs; a property absent from
\* options is 0 (unit), "" (canvasID), << >> (origin)
Turtle(options, defs) ==
  LET dflt == defs[Len(defs)]
      o    == Origin(<< DivBy(Num(canvas.height), 2), DivBy(Num(canvas.width), 2) >>,
                     options.origin, 1)
      tu   == [ log      |-> << >>,
                logging  |-> FALSE,
                unit     |-> IF options.unit # 0 THEN options.unit ELSE dflt.unit,
                canvasID |-> IF options.canvasID # "" THEN options.canvasID
                             ELSE dflt.canvasID,
                home     |-> Vec(o[1], o[2], Num(0)),
                position |-> << >>,
                heading  |-> << >>,
                normal   |-> << >>,
                pen      |-> TRUE,
                penStyle |-> "black",
                penWidth |-> 2 ]
  IN [ Home(tu).self EXCEPT !.logging = TRUE ]

PenActive(tu, b) ==
  Result([ Logged(tu, Entry("PenActive", 0, IF b THEN "true" ELSE "false"))
             EXCEPT !.pen = b ], << >>)

PenDown(tu) ==
  Result([ Logged(tu, Entry("PenDown", 0, "")) EXCEPT !.pen = TRUE ], << >>)

PenUp(tu) ==
  Result([ Logged(tu, Entry("PenUp", 0, "")) EXCEPT !.pen = FALSE ], << >>)

SetPenWidth(tu, w) ==
  Result([ Logged(tu, Entry("SetPenWidth", w, "")) EXCEPT !.penWidth = w ], << >>)

\* variant of SetPenStyle: also puts the pen down
SetPenStyle_down(tu, c) ==
  Result([ Logged(tu, Entry("SetPenStyle", 0, c)) EXCEPT
             !.penStyle = c, !.pen = TRUE ], << >>)

SetPenStyle(tu, c) ==
  Result([ Logged(tu, Entry("SetPenStyle", 0, c)) EXCEPT !.penStyle = c ], << >>)

\* the surface commands of Move, from position to newposition
MoveStroke_xy(tu, newposition) ==
  << Call("save"),
     SetStr("lineCap", "round"),
     SetStr("lineJoin", "round"),
     SetNum("lineWidth", tu.penWidth),
     SetStr("strokeStyle", tu.penStyle),
     Call("beginPath"),
     PathTo("moveTo", tu.position[x], tu.position[y]),
     PathTo("lineTo", newposition[x], newposition[y]),
     Call("stroke"),
     Call("restore") >>

MoveStroke_norestore(tu, newposition) ==
  << Call("save"),
     SetStr("lineCap", "round"),
     SetStr("lineJoin", "round"),
     SetNum("lineWidth", tu.penWidth),
     SetStr("strokeStyle", tu.penStyle),
     Call("beginPath"),
     PathTo("moveTo", tu.position[y], tu.position[x]),
     PathTo("lineTo", newposition[y], newposition[x]),
     Call("stroke") >>

MoveStroke(tu, newposition) ==
  << Call("save"),
     SetStr("lineCap", "round"),
     SetStr("lineJoin", "round"),
     SetNum("lineWidth", tu.penWidth),
     SetStr("strokeStyle", tu.penStyle),
     Call("beginPath"),
     PathTo("moveTo", tu.position[y], tu.position[x]),
     PathTo("lineTo", newposition[y], newposition[x]),
     Call("stroke"),
     Call("restore") >>

\* linear(1, position, d * unit, heading)
NewPosition_plus(tu, d) ==
  linear(Num(1), tu.position, Add(Num(d), Num(tu.unit)), tu.heading)

NewPosition(tu, d) ==
  linear(Num(1), tu.position, Mul(Num(d), Num(tu.unit)), tu.heading)

Move(tu, d) ==
  LET newposition == NewPosition(tu, d) IN
  Result([ Logged(tu, Entry("Move", d, "")) EXCEPT !.position = newposition ],
         IF tu.pen THEN MoveStroke(tu, newposition) ELSE << >>)

\* variant of Turn: also replaces normal by left
Turn_both(tu, phi) ==
  LET alpha      == phi
      left       == cross(tu.normal, tu.heading)
      newheading == rotateNormal(tu.heading, left, tu.normal, alpha)
  IN Result([ Logged(tu, Entry("Turn", phi, "")) EXCEPT
                !.heading = newheading, !.normal = left ],
            << >>)

Turn(tu, phi) ==
  LET alpha      == phi
      left       == cross(tu.normal, tu.heading)
      newheading == rotateNormal(tu.heading, left, tu.normal, alpha)
  IN Result([ Logged(tu, Entry("Turn", phi, "")) EXCEPT !.heading = newheading ],
            << >>)

Roll(tu, psi) ==
  LET alpha     == psi
      right     == cross(tu.heading, tu.normal)
      newnormal == rotateNormal(tu.normal, right, tu.heading, alpha)
  IN Result([ Logged(tu, Entry("Roll", psi, "")) EXCEPT !.normal = newnormal ],
            << >>)

\* variant of Dive: heading = cross(normal, left)
Dive_flip(tu, theta) ==
  LET alpha     == theta
      left      == cross(tu.normal, tu.heading)
      newnormal == rotateNormal(tu.normal, tu.heading, left, alpha)
  IN Result([ Logged(tu, Entry("Dive", theta, "")) EXCEPT
                !.normal  = newnormal,
                !.heading = cross(newnormal, left) ],
            << >>)

Dive_noheading(tu, theta) ==
  LET alpha     == theta
      left      == cross(tu.normal, tu.heading)
      newnormal == rotateNormal(tu.normal, tu.heading, left, alpha)
  IN Result([ Logged(tu, Entry("Dive", theta, "")) EXCEPT !.normal = newnormal ],
            << >>)

Dive_newleft(tu, theta) ==
  LET alpha     == theta
      left      == cross(tu.normal, tu.heading)
      newnormal == rotateNormal(tu.normal, tu.heading, left, alpha)
  IN Result([ Logged(tu, Entry("Dive", theta, "")) EXCEPT
                !.normal  = newnormal,
                !.heading = cross(cross(newnormal, tu.heading), newnormal) ],
            << >>)

Dive(tu, theta) ==
  LET alpha     == theta
      left      == cross(tu.normal, tu.heading)
      newnormal == rotateNormal(tu.normal, tu.heading, left, alpha)
  IN Result([ Logged(tu, Entry("Dive", theta, "")) EXCEPT
                !.normal  = newnormal,
                !.heading = cross(left, newnormal) ],
            << >>)

\* variant of Segment: Turn before Roll
Segment_turnroll(tu, d, psi, phi) ==
  LET m == Move(tu, d)
      t == Turn(m.self, phi)
      r == Roll(t.self, psi)
  IN Result(r.self, m.out \o t.out \o r.out)

Segment(tu, d, psi, phi) ==
  LET m == Move(tu, d)
      r == Roll(m.self, psi)
      t == Turn(r.self, phi)
  IN Result(t.self, m.out \o r.out \o t.out)

(***************************************************************************)
(* DrawTurtle.  Its inner functions read the turtle through the global     *)
(* variable turtle (tur below) and the variables of the enclosing call     *)
(* (g below: the colour c, left, a and the five points of the glyph).      *)
(***************************************************************************)
\* variant of drawWings: cross-hair stroke colours exchanged
drawWings_swapped(tur, g) ==
  LET eye(k, tip)  == Add(Add(tur.position[k], Mul(DivBy(g.a, 2), tur.heading[k])),
                          DivBy(Sub(tip[k], g.back[k]), 7))
      hair(k, tip) == Add(tur.position[k], DivBy(Sub(tip[k], g.nose[k]), 5))
  IN
  \* starboard wing
  << Call("beginPath"),
     PathTo("moveTo", g.nose[y], g.nose[x]),
     PathTo("lineTo", g.back[y], g.back[x]),
     PathTo("lineTo", g.star[y], g.star[x]),
     Call("closePath"),
     SetStr("fillStyle", g.c),
     Call("fill"),
  \* port wing
     Call("beginPath"),
     PathTo("moveTo", g.nose[y], g.nose[x]),
     PathTo("lineTo", g.back[y], g.back[x]),
     PathTo("lineTo", g.port[y], g.port[x]),
     Call("closePath"),
     SetStr("fillStyle", "white"),
     Call("fill") >>
  \o
  \* wing decorations
  ( IF GeqZero(tur.normal[z])
    THEN \* eyes on top
      << Call("save"),
         SetNum("lineWidth", 2),
         Call("beginPath"),
         PathTo("moveTo", eye(y, g.star), eye(x, g.star)),
         PathTo("lineTo", eye(y, g.star), eye(x, g.star)),
         SetStr("strokeStyle", "white"),
         Call("stroke"),
         Call("beginPath"),
         PathTo("moveTo", eye(y, g.port), eye(x, g.port)),
         PathTo("lineTo", eye(y, g.port), eye(x, g.port)),
         SetStr("strokeStyle", g.c),
         Call("stroke"),
         Call("restore") >>
    ELSE \* fin is down, draw cross hair
      << Call("beginPath"),
         PathTo("moveTo", tur.position[y], tur.position[x]),
         PathTo("lineTo", hair(y, g.port), hair(x, g.port)),
         SetStr("strokeStyle", "white"),
         Call("stroke"),
         Call("beginPath"),
         PathTo("moveTo", tur.position[y], tur.position[x]),
         PathTo("lineTo", hair(y, g.star), hair(x, g.star)),
         SetStr("strokeStyle", g.c),
         Call("stroke") >> )
  \o
  \* starboard wing's edge
  << Call("beginPath"),
     PathTo("moveTo", g.nose[y], g.nose[x]),
     PathTo("lineTo", g.star[y], g.star[x]),
     PathTo("lineTo", g.back[y], g.back[x]),
     SetStr("strokeStyle", "white"),
     Call("stroke"),
  \* port wing's edge
     Call("beginPath"),
     PathTo("moveTo", g.nose[y], g.nose[x]),
     PathTo("lineTo", g.port[y], g.port[x]),
     PathTo("lineTo", g.back[y], g.back[x]),
     SetStr("strokeStyle", g.c),
     Call("stroke") >>

drawWings(tur, g) ==
  LET eye(k, tip)  == Add(Add(tur.position[k], Mul(DivBy(g.a, 2), tur.heading[k])),
                          DivBy(Sub(tip[k], g.back[k]), 7))
      hair(k, tip) == Add(tur.position[k], DivBy(Sub(tip[k], g.nose[k]), 5))
  IN
  \* starboard wing
  << Call("beginPath"),
     PathTo("moveTo", g.nose[y], g.nose[x]),
     PathTo("lineTo", g.back[y], g.back[x]),
     PathTo("lineTo", g.star[y], g.star[x]),
     Call("closePath"),
     SetStr("fillStyle", g.c),
     Call("fill"),
  \* port wing
     Call("beginPath"),
     PathTo("moveTo", g.nose[y], g.nose[x]),
     PathTo("lineTo", g.back[y], g.back[x]),
     PathTo("lineTo", g.port[y], g.port[x]),
     Call("closePath"),
     SetStr("fillStyle", "white"),
     Call("fill") >>
  \o
  \* wing decorations
  ( IF GeqZero(tur.normal[z])
    THEN \* eyes on top
      << Call("save"),
         SetNum("lineWidth", 2),
         Call("beginPath"),
         PathTo("moveTo", eye(y, g.star), eye(x, g.star)),
         PathTo("lineTo", eye(y, g.star), eye(x, g.star)),
         SetStr("strokeStyle", "white"),
         Call("stroke"),
         Call("beginPath"),
         PathTo("moveTo", eye(y, g.port), eye(x, g.port)),
         PathTo("lineTo", eye(y, g.port), eye(x, g.port)),
         SetStr("strokeStyle", g.c),
         Call("stroke"),
         Call("restore") >>
    ELSE \* fin is down, draw cross hair
      << Call("beginPath"),
         PathTo("moveTo", tur.position[y], tur.position[x]),
         PathTo("lineTo", hair(y, g.port), hair(x, g.port)),
         SetStr("strokeStyle", g.c),
         Call("stroke"),
         Call("beginPath"),
         PathTo("moveTo", tur.position[y], tur.position[x]),
         PathTo("lineTo", hair(y, g.star), hair(x, g.star)),
         SetStr("strokeStyle", "white"),
         Call("stroke") >> )
  \o
  \* starboard wing's edge
  << Call("beginPath"),
     PathTo("moveTo", g.nose[y], g.nose[x]),
     PathTo("lineTo", g.star[y], g.star[x]),
     PathTo("lineTo", g.back[y], g.back[x]),
     SetStr("strokeStyle", "white"),
     Call("stroke"),
  \* port wing's edge
     Call("beginPath"),
     PathTo("moveTo", g.nose[y], g.nose[x]),
     PathTo("lineTo", g.port[y], g.port[x]),
     PathTo("lineTo", g.back[y], g.back[x]),
     SetStr("strokeStyle", g.c),
     Call("stroke") >>

drawFinFace(tur, g, fc) ==
  << Call("beginPath"),
     PathTo("moveTo", tur.position[y], tur.position[x]),
     PathTo("lineTo", g.fin[y], g.fin[x]),
     PathTo("lineTo", g.back[y], g.back[x]),
     Call("closePath"),
     SetStr("fillStyle", fc),
     Call("fill") >>

drawFinEdge(tur, g, fc) ==
  << Call("beginPath"),
     PathTo("moveTo", tur.position[y], tur.position[x]),
     PathTo("lineTo", g.fin[y], g.fin[x]),
     PathTo("lineTo", g.back[y], g.back[x]),
     Call("closePath"),
     SetStr("strokeStyle", fc),
     Call("stroke") >>

\* variant of drawFin: the face always first
drawFin_facefirst(tur, g) ==
  IF GeqZero(g.left[z])
  THEN drawFinFace(tur, g, "white") \o drawFinEdge(tur, g, g.c)
  ELSE drawFinFace(tur, g, g.c) \o drawFinEdge(tur, g, "white")

\* variant of drawFin: decides on normal[z] instead of left[z]
drawFin_normal(tur, g) ==
  IF GeqZero(tur.normal[z])
  THEN drawFinFace(tur, g, "white") \o drawFinEdge(tur, g, g.c)
  ELSE drawFinEdge(tur, g, "white") \o drawFinFace(tur, g, g.c)

drawFin(tur, g) ==
  IF GeqZero(g.left[z])
  THEN drawFinFace(tur, g, "white") \o drawFinEdge(tur, g, g.c)
  ELSE drawFinEdge(tur, g, "white") \o drawFinFace(tur, g, g.c)

\* the variables of a DrawTurtle(c) call on turtle tu
Glyph(tu, c) ==
  LET left  == cross(tu.normal, tu.heading)
      alpha == 30
      ca    == Math_cos(alpha)
      sa    == Math_sin(alpha)
      h     == Num(tu.unit)
      a     == Mul(Mul(DivBy(Num(2), 3), h), ca)
      nose  == linear(Num(1), tu.position, a, tu.heading)
      back  == linear(Num(1), nose, Mul(Neg(h), ca), tu.heading)
      port  == linear(Num(1), back, Mul(h, sa), left)
      star  == linear(Num(1), back, Mul(Neg(h), sa), left)
      fin   == linear(Num(1), back, Mul(h, sa), tu.normal)
  IN [ c |-> c, left |-> left, a |-> a, nose |-> nose, back |-> back,
       port |-> port, star |-> star, fin |-> fin ]

\* the block with ( context ) { save(); ... restore(); } of DrawTurtle
\* variant: wings always drawn first
DrawOrder_wingsfirst(tur, g) ==
  << Call("save"),
     SetNum("lineWidth", 1),
     SetStr("lineCap", "round"),
     SetStr("lineJoin", "round") >>
  \o drawWings(tur, g) \o drawFin(tur, g)
  \o << Call("restore") >>

DrawOrder(tur, g) ==
  << Call("save"),
     SetNum("lineWidth", 1),
     SetStr("lineCap", "round"),
     SetStr("lineJoin", "round") >>
  \o ( IF GeqZero(tur.normal[z])
       THEN \* fin is up, draw it last
            drawWings(tur, g) \o drawFin(tur, g)
       ELSE \* fin is down, draw it first
            drawFin(tur, g) \o drawWings(tur, g) )
  \o << Call("restore") >>

DrawTurtle(tu, c) ==
  LET self == Logged(tu, Entry("DrawTurtle", 0, c))
      \* turtle = this: the inner functions see the turtle itself
      tur  == self
  IN [ self |-> self, out |-> DrawOrder(tur, Glyph(self, c)), global |-> TRUE ]

(***************************************************************************)
(* The stack of defaults.  An entry has the properties canvasID and unit;  *)
(* in an argument def a property that is absent is "" (canvasID), 0 (unit) *)
(***************************************************************************)
\* new cloneObject(source): a new object with the properties of source
cloneObject(source) == [ p \in DOMAIN source |-> source[p] ]

top(a) == a[Len(a)]

\* for (var p in def) top(defaults)[p] = def[p]
SetDefaults(defs, def) ==
  [ defs EXCEPT ![Len(defs)] =
      [ canvasID |-> IF def.canvasID # "" THEN def.canvasID ELSE @.canvasID,
        unit     |-> IF def.unit # 0 THEN def.unit ELSE @.unit ] ]

GetDefaults(defs) == top(defs)

\* variant of PushDefaults: the values are set before the top is copied
PushDefaults_setfirst(defs, def) ==
  LET set == SetDefaults(defs, def) IN Append(set, cloneObject(top(set)))

PushDefaults(defs, def) ==
  SetDefaults(Append(defs, cloneObject(top(defs))), def)

PopDefaults(defs) ==
  IF Len(defs) > 1 THEN SubSeq(defs, 1, Len(defs) - 1) ELSE defs

(***************************************************************************)
(* State                                                                   *)
(***************************************************************************)
VARIABLES
  defaults,  \* the stack of defaults, topmost last
  turtles,   \* the Turtle objects, by id
  turtle,    \* the global variable turtle: the id it holds, 0 while undefined
  ctx,       \* the drawing surface: its current style and its saved styles
  issued,    \* the commands issued on the surface by logged calls, in order
  crossed    \* the vectors handed to cross by a caller, and what it returned

vars == << defaults, turtles, turtle, ctx, issued, crossed >>

\* options objects handed to new Turtle(...)
NoOptions == [ origin |-> << >>, unit |-> 0, canvasID |-> "" ]

CornerOptions == [ origin |-> << "t", "l" >>, unit |-> 20, canvasID |-> "" ]

\* states other code of the page may have left the surface in
Untouched == [ style |-> DefaultStyle, stack |-> << >> ]

Styled == [ style |-> PageStyle, stack |-> << DefaultStyle >> ]

\* the pages the model starts from: the options of turtle 1 and the surface
Pages == { << NoOptions, Untouched >>, << CornerOptions, Styled >> }

\* the module is loaded, two turtles are constructed
Loaded ==
  /\ defaults = << [ canvasID |-> "TGspace", unit |-> 30 ] >>
  /\ \E pg \in Pages :
       /\ turtles = [ t \in TurtleIds |->
                        Turtle(IF t = 1 THEN pg[1] ELSE NoOptions, defaults) ]
       /\ ctx = pg[2]
  /\ turtle = 0
  /\ issued = << >>

\* cross has not been called
NotCrossed == [ u |-> << >>, v |-> << >>, result |-> << >> ]

Init == Loaded /\ crossed = NotCrossed

(***************************************************************************)
(* Calls                                                                   *)
(***************************************************************************)
Abs(i) == IF i < 0 THEN 0 - i ELSE i

\* the turtle is on one of the three axes through its home, within MaxPos
\* units of it
Near(tu) ==
  LET off == [ k \in x..z |-> tu.position[k][1] - tu.home[k][1] ]
  IN /\ Cardinality({ k \in x..z : off[k] # 0 }) <= 1
     /\ \A k \in x..z : Abs(off[k]) <= MaxPos * tu.unit * Scale

\* the surface after the commands out have run on it
Drawn(c, out) ==
  LET st == Run(c, out) IN [ style |-> st.style, stack |-> st.stack ]

\* a call on turtle t of a method with result res
Step(t, res) ==
  \E r \in { res } :
    /\ Near(r.self)
    /\ Len(r.self.log) <= MaxLog
    /\ turtles' = [ turtles EXCEPT ![t] = r.self ]
    /\ turtle' = IF r.global THEN t ELSE turtle
    /\ ctx' = Drawn(ctx, r.out)
    /\ issued' = IF turtles[t].logging THEN issued \o r.out ELSE issued
    /\ UNCHANGED << defaults, crossed >>

HomeCall(t) == Step(t, Home(turtles[t]))

PenActiveCall(t, b) == Step(t, PenActive(turtles[t], b))

PenDownCall(t) == Step(t, PenDown(turtles[t]))

PenUpCall(t) == Step(t, PenUp(turtles[t]))

SetPenWidthCall(t, w) == Step(t, SetPenWidth(turtles[t], w))

SetPenStyleCall(t, c) == Step(t, SetPenStyle(turtles[t], c))

MoveCall(t, d) == Step(t, Move(turtles[t], d))

TurnCall(t, phi) == Step(t, Turn(turtles[t], phi))

RollCall(t, psi) == Step(t, Roll(turtles[t], psi))

DiveCall(t, theta) == Step(t, Dive(turtles[t], theta))

SegmentCall(t, d, psi, phi) == Step(t, Segment(turtles[t], d, psi, phi))

DrawTurtleCall(t, c) == Step(t, DrawTurtle(turtles[t], c))

\* the caller's assignment turtle.logging = false, made before any call is logged
StopLogging(t) ==
  /\ turtles[t].logging
  /\ turtles[t].log = << >>
  /\ turtles' = [ turtles EXCEPT ![t].logging = FALSE ]
  /\ UNCHANGED << defaults, turtle, ctx, issued, crossed >>

\* distances and angles offered to Segment
SegDists == { 0 - 1, 1 }

SegAngles == { 0, 90 }

(***************************************************************************)
(* Spec: one turtle, every method, command logging switched off            *)
(***************************************************************************)
\* command logging is off on turtle t
Quiet(t) == ~ turtles[t].logging

Next ==
  \E t \in { 1 } :
    \/ StopLogging(t)
    \/ Quiet(t) /\ HomeCall(t)
    \/ Quiet(t) /\ \E b \in BOOLEAN : PenActiveCall(t, b)
    \/ Quiet(t) /\ PenDownCall(t)
    \/ Quiet(t) /\ PenUpCall(t)
    \/ Quiet(t) /\ \E w \in PenWidths : SetPenWidthCall(t, w)
    \/ Quiet(t) /\ \E c \in PenStyles : SetPenStyleCall(t, c)
    \/ Quiet(t) /\ \E d \in Dists : MoveCall(t, d)
    \/ Quiet(t) /\ \E phi \in Angles : TurnCall(t, phi)
    \/ Quiet(t) /\ \E psi \in Angles : RollCall(t, psi)
    \/ Quiet(t) /\ \E theta \in Angles : DiveCall(t, theta)
    \/ Quiet(t) /\ \E d \in SegDists, psi \in SegAngles, phi \in SegAngles :
                     SegmentCall(t, d, psi, phi)
    \/ Quiet(t) /\ \E c \in Colors : DrawTurtleCall(t, c)

Spec == Init /\ [][Next]_vars

(***************************************************************************)
(* SpecDraw: one turtle that moves, rotates and is drawn, with the pen as  *)
(* constructed and command logging switched off                            *)
(***************************************************************************)
NextDraw ==
  \E t \in { 1 } :
    \/ StopLogging(t)
    \/ Quiet(t) /\ HomeCall(t)
    \/ Quiet(t) /\ \E d \in Dists : MoveCall(t, d)
    \/ Quiet(t) /\ \E phi \in Angles : TurnCall(t, phi)
    \/ Quiet(t) /\ \E psi \in Angles : RollCall(t, psi)
    \/ Quiet(t) /\ \E theta \in Angles : DiveCall(t, theta)
    \/ Quiet(t) /\ \E c \in Colors : DrawTurtleCall(t, c)

SpecDraw == Init /\ [][NextDraw]_vars

(***************************************************************************)
(* SpecPen: one turtle that moves and rotates with any pen and is never    *)
(* drawn, command logging switched off                                     *)
(***************************************************************************)
NextPen ==
  \E t \in { 1 } :
    \/ StopLogging(t)
    \/ Quiet(t) /\ HomeCall(t)
    \/ Quiet(t) /\ \E b \in BOOLEAN : PenActiveCall(t, b)
    \/ Quiet(t) /\ PenDownCall(t)
    \/ Quiet(t) /\ PenUpCall(t)
    \/ Quiet(t) /\ \E w \in PenWidths : SetPenWidthCall(t, w)
    \/ Quiet(t) /\ \E c \in PenStyles : SetPenStyleCall(t, c)
    \/ Quiet(t) /\ \E d \in Dists : MoveCall(t, d)
    \/ Quiet(t) /\ \E phi \in Angles : TurnCall(t, phi)
    \/ Quiet(t) /\ \E psi \in Angles : RollCall(t, psi)
    \/ Quiet(t) /\ \E theta \in Angles : DiveCall(t, theta)
    \/ Quiet(t) /\ \E d \in SegDists, psi \in SegAngles, phi \in SegAngles :
                     SegmentCall(t, d, psi, phi)

SpecPen == Init /\ [][NextPen]_vars

(***************************************************************************)
(* SpecLog: one turtle with command logging on, every method               *)
(***************************************************************************)
\* arguments offered while logging
LogDists == { 1 }

LogAngles == { 90 }

LogWidths == { 3 }

LogStyles == { "red" }

LogColors == { "blue" }

NextLog ==
  \E t \in { 1 } :
    \/ ~ Quiet(t) /\ HomeCall(t)
    \/ ~ Quiet(t) /\ \E b \in BOOLEAN : PenActiveCall(t, b)
    \/ ~ Quiet(t) /\ PenDownCall(t)
    \/ ~ Quiet(t) /\ PenUpCall(t)
    \/ ~ Quiet(t) /\ \E w \in LogWidths : SetPenWidthCall(t, w)
    \/ ~ Quiet(t) /\ \E c \in LogStyles : SetPenStyleCall(t, c)
    \/ ~ Quiet(t) /\ \E d \in LogDists : MoveCall(t, d)
    \/ ~ Quiet(t) /\ \E phi \in LogAngles : TurnCall(t, phi)
    \/ ~ Quiet(t) /\ \E psi \in LogAngles : RollCall(t, psi)
    \/ ~ Quiet(t) /\ \E theta \in LogAngles : DiveCall(t, theta)
    \/ ~ Quiet(t) /\ \E d \in LogDists, psi \in LogAngles, phi \in LogAngles :
                       SegmentCall(t, d, psi, phi)
    \/ ~ Quiet(t) /\ \E c \in LogColors : DrawTurtleCall(t, c)

SpecLog == Init /\ [][NextLog]_vars

(***************************************************************************)
(* SpecTwo: two turtles on one surface that turn, move and are drawn,      *)
(* command logging switched off                                            *)
(***************************************************************************)
NextTwo ==
  \E t \in TurtleIds :
    \/ StopLogging(t)
    \/ Quiet(t) /\ \E d \in Dists : MoveCall(t, d)
    \/ Quiet(t) /\ \E phi \in Angles : TurnCall(t, phi)
    \/ Quiet(t) /\ \E c \in Colors : DrawTurtleCall(t, c)

SpecTwo == Init /\ [][NextTwo]_vars

(***************************************************************************)
(* SpecCross: cross is called on two vectors of whole numbers, as Test()   *)
(* calls it on [0, 0, 1] and [1, 0, 0]                                     *)
(***************************************************************************)
Coords == (0 - MaxCoord)..MaxCoord

\* the arrays [i, j, k] with coordinates in Coords
Triples == Coords \X Coords \X Coords

InitCross ==
  /\ Loaded
  /\ \E u \in Triples, v \in Triples :
       crossed = [ u |-> u, v |-> v, result |-> << >> ]

\* result = cross(u, v)
CrossCall ==
  /\ crossed.result = << >>
  /\ crossed' = [ crossed EXCEPT
                    !.result = cross(IntVec(crossed.u[1], crossed.u[2], crossed.u[3]),
                                     IntVec(crossed.v[1], crossed.v[2], crossed.v[3])) ]
  /\ UNCHANGED << defaults, turtles, turtle, ctx, issued >>

NextCross == CrossCall

SpecCross == InitCross /\ [][NextCross]_vars

(***************************************************************************)
(* SpecDefaults: the functions on the stack of defaults, and Test()        *)
(***************************************************************************)
\* arguments def offered to SetDefaults and PushDefaults
Defs ==
  { [ canvasID |-> c, unit |-> u ] :
      c \in { "", "TGexample1", "TGexample2" }, u \in { 0, 20 } }

SetDefaultsCall(def) ==
  /\ defaults' = SetDefaults(defaults, def)
  /\ UNCHANGED << turtles, turtle, ctx, issued, crossed >>

PushDefaultsCall(def) ==
  /\ Len(defaults) < MaxDepth
  /\ defaults' = PushDefaults(defaults, def)
  /\ UNCHANGED << turtles, turtle, ctx, issued, crossed >>

PopDefaultsCall ==
  /\ defaults' = PopDefaults(defaults)
  /\ UNCHANGED << turtles, turtle, ctx, issued, crossed >>

\* Test(): what its calls leave on the stack
TestCall ==
  /\ defaults' =
       PopDefaults(
         PushDefaults(
           SetDefaults(defaults, [ canvasID |-> "TGexample1", unit |-> 0 ]),
           [ canvasID |-> "TGexample2", unit |-> 0 ]))
  /\ UNCHANGED << turtles, turtle, ctx, issued, crossed >>

NextDefaults ==
  \/ \E def \in Defs : SetDefaultsCall(def)
  \/ \E def \in Defs : PushDefaultsCall(def)
  \/ PopDefaultsCall
  \/ TestCall

SpecDefaults == Init /\ [][NextDefaults]_vars

(***************************************************************************)
(* Properties.  A property of a call is stated for every call that can be  *)
(* made in a reachable state: the method's operator is applied to the      *)
(* turtle of that state, as the call's action applies it.                  *)
(***************************************************************************)
Dot(u, v) == Add(Add(Mul(u[x], v[x]), Mul(u[y], v[y])), Mul(u[z], v[z]))

Orthonormal(u, v) ==
  /\ Dot(u, u) = Num(1)
  /\ Dot(v, v) = Num(1)
  /\ Dot(u, v) = Num(0)

\* the surface point of a turtle-space point: (a, b, c) is drawn at (b, a)
Project(v) == << v[y], v[x] >>

\* the shapes the commands out paint on the surface as it is
Painted(out) == Run(ctx, out).painted

\* the open or closed path through the surface points pts
Path(pts, closed) == << [ pts |-> pts, closed |-> closed ] >>

\* the indices of the shapes of sh that satisfy Test
Where(sh, Test(_)) == { i \in 1..Len(sh) : Test(sh[i]) }

\* no call that can be made on tu changes its home
HomeKept(tu) ==
  /\ Home(tu).self.home = tu.home
  /\ PenDown(tu).self.home = tu.home
  /\ PenUp(tu).self.home = tu.home
  /\ \A b \in BOOLEAN : PenActive(tu, b).self.home = tu.home
  /\ \A w \in PenWidths : SetPenWidth(tu, w).self.home = tu.home
  /\ \A c \in PenStyles : SetPenStyle(tu, c).self.home = tu.home
  /\ \A d \in Dists : Move(tu, d).self.home = tu.home
  /\ \A phi \in Angles : Turn(tu, phi).self.home = tu.home
  /\ \A psi \in Angles : Roll(tu, psi).self.home = tu.home
  /\ \A theta \in Angles : Dive(tu, theta).self.home = tu.home
  /\ \A d \in SegDists, psi \in SegAngles, phi \in SegAngles :
       Segment(tu, d, psi, phi).self.home = tu.home
  /\ \A c \in Colors : DrawTurtle(tu, c).self.home = tu.home

\* the glyph's paths on the surface
FinPath(tu, g)  == Path(<< Project(tu.position), Project(g.fin), Project(g.back) >>, TRUE)

StarPath(g) == Path(<< Project(g.nose), Project(g.back), Project(g.star) >>, TRUE)

PortPath(g) == Path(<< Project(g.nose), Project(g.back), Project(g.port) >>, TRUE)

\* the eye of the wing with tip tip: a zero-length line at
\* position + a/2 * heading + (tip - back) / 7
EyePath(tu, g, tip) ==
  LET e == [ k \in x..z |->
             Add(Add(tu.position[k], Mul(DivBy(g.a, 2), tu.heading[k])),
                 DivBy(Sub(tip[k], g.back[k]), 7)) ]
  IN Path(<< Project(e), Project(e) >>, FALSE)

\* the cross-hair line of the wing with tip tip: from position to
\* position + (tip - nose) / 5
HairPath(tu, g, tip) ==
  LET e == [ k \in x..z |-> Add(tu.position[k], DivBy(Sub(tip[k], g.nose[k]), 5)) ]
  IN Path(<< Project(tu.position), Project(e) >>, FALSE)

\* what is seen of a shape: its kind, path, colour and line width
Look(s) == << s.kind, s.path, s.color, IF s.kind = "stroke" THEN s.width ELSE 0 >>

Looks(sh) == [ i \in 1..Len(sh) |-> Look(sh[i]) ]

Filled(path, color) == << "fill", path, color, 0 >>

Stroked(path, color, width) == << "stroke", path, color, width >>

-----------------------------------------------------------------------------
\* C1: after every call of any sequence of Turn, Roll, Dive, Move, Segment and
\* Home (angles multiples of 90 degrees) the frame of every turtle is exactly
\* orthonormal: |heading| = 1, |normal| = 1, heading . normal = 0.
C1_FrameOrthonormal ==
  \A t \in TurtleIds : Orthonormal(turtles[t].heading, turtles[t].normal)

\* a frame only Dive and Roll reach: heading along the third axis, away from home
C1_Witness ==
  /\ turtles[1].heading = IntVec(0, 0, 0 - 1)
  /\ turtles[1].normal = IntVec(1, 0, 0)
  /\ turtles[1].position # turtles[1].home

-----------------------------------------------------------------------------
\* C2: among the shapes one DrawTurtle call paints, the two fin shapes (face
\* fill, edge stroke) come after all six wing shapes (fills, decorations,
\* edges) when normal.z >= 0, and before all of them when normal.z < 0.
C2_FinOrder ==
  \A t \in TurtleIds, c \in Colors :
    LET tu    == turtles[t]
        g     == Glyph(tu, c)
        sh    == Painted(DrawTurtle(tu, c).out)
        IsFin(s) == s.path = FinPath(tu, g)
        IsWing(s) == s.path # FinPath(tu, g)
        fins  == Where(sh, IsFin)
        wings == Where(sh, IsWing)
    IN /\ Cardinality(fins) = 2
       /\ Cardinality(wings) = 6
       /\ \A i \in fins, j \in wings :
            IF GeqZero(tu.normal[z]) THEN i > j ELSE i < j

\* a turtle that has been drawn while upside down
C2_Witness ==
  /\ turtle = 1
  /\ ~ GeqZero(turtles[1].normal[z])
  /\ Where(Painted(DrawTurtle(turtles[1], "blue").out),
           LAMBDA s : s.path = FinPath(turtles[1], Glyph(turtles[1], "blue")))
       = { 1, 2 }

-----------------------------------------------------------------------------
\* C3: every Move and DrawTurtle call, on any turtle of the surface, is
\* style-scoped: after its commands the surface's stroke colour, fill colour,
\* line width, cap and join and its stack of saved styles are what they were
\* before, the stack was never shorter in between, and the call issues as
\* many restores as saves.
Count(out, op) == Cardinality({ i \in 1..Len(out) : out[i].op = op })

Scoped(out) ==
  LET st == Run(ctx, out)
  IN /\ st.style = ctx.style
     /\ st.stack = ctx.stack
     /\ st.low = Len(ctx.stack)
     /\ Count(out, "save") = Count(out, "restore")

C3_StyleScoped ==
  \A t \in TurtleIds :
    /\ \A d \in Dists : Scoped(Move(turtles[t], d).out)
    /\ \A c \in Colors : Scoped(DrawTurtle(turtles[t], c).out)

\* a styled surface with a saved style, a turtle with the pen down that has
\* moved and been drawn, whose Move and DrawTurtle both save
C3_Witness ==
  /\ ctx = Styled
  /\ turtle = 1
  /\ turtles[1].pen
  /\ turtles[1].penStyle = "red"
  /\ turtles[1].position # turtles[1].home
  /\ Count(Move(turtles[1], 1).out, "save") = 1
  /\ Count(DrawTurtle(turtles[1], "red").out, "save") = 2

-----------------------------------------------------------------------------
\* C4: Home() puts position at the home point, heading at (0,1,0) and normal
\* at (0,0,1); no call changes the home point; and a second Home() changes
\* nothing but the log.
C4_Home ==
  \A t \in TurtleIds :
    LET tu   == turtles[t]
        once == Home(tu).self
    IN /\ once.position = tu.home
       /\ once.heading = IntVec(0, 1, 0)
       /\ once.normal = IntVec(0, 0, 1)
       /\ HomeKept(tu)
       /\ [ Home(once).self EXCEPT !.log = once.log ] = once

\* a turtle away from home in a turned frame, pen up, on which Home acts
C4_Witness ==
  /\ turtles[1].position # turtles[1].home
  /\ turtles[1].heading # IntVec(0, 1, 0)
  /\ turtles[1].normal # IntVec(0, 0, 1)
  /\ ~ turtles[1].pen
  /\ turtles[1].home = Vec(Num(0), Num(0), Num(0))
  /\ Home(turtles[1]).self.position = turtles[1].home

-----------------------------------------------------------------------------
\* the decorations a DrawTurtle(c) call on tu paints, in painting order
Decorations(tu, c) ==
  LET g  == Glyph(tu, c)
      ds == { EyePath(tu, g, g.star), EyePath(tu, g, g.port),
              HairPath(tu, g, g.star), HairPath(tu, g, g.port) }
      IsDecoration(s) == s.path \in ds
  IN Looks(SelectSeq(Painted(DrawTurtle(tu, c).out), IsDecoration))

\* the colour in which DrawTurtle(c) on tu strokes the decoration of the
\* wing side ("star" or "port")
DecorationColor(tu, c, side) ==
  LET g   == Glyph(tu, c)
      tip == IF side = "star" THEN g.star ELSE g.port
      sh  == Painted(DrawTurtle(tu, c).out)
      i   == CHOOSE j \in 1..Len(sh) :
               sh[j].path \in { EyePath(tu, g, tip), HairPath(tu, g, tip) }
  IN sh[i].color

\* the eyes are painted exactly when normal.z >= 0, the cross-hair exactly
\* when normal.z < 0
DecorationChoice(tu, c) ==
  LET g == Glyph(tu, c)
      paths == { d[2] : d \in { Decorations(tu, c)[i] : i \in 1..2 } }
  IN /\ Len(Decorations(tu, c)) = 2
     /\ IF GeqZero(tu.normal[z])
        THEN paths = { EyePath(tu, g, g.star), EyePath(tu, g, g.port) }
        ELSE paths = { HairPath(tu, g, g.star), HairPath(tu, g, g.port) }

\* C5 as stated: the eyes are painted exactly when normal.z >= 0 and the
\* cross-hair exactly when normal.z < 0, and a wing side's cross-hair line
\* has the other colour than that side's eye: compared on the turtle and the
\* same turtle turned upside down (Dive(180)), drawn in the same colour.
C5_Original ==
  \A t \in TurtleIds, c \in Colors :
    LET tu   == turtles[t]
        over == Dive(tu, 180).self
    IN /\ DecorationChoice(tu, c)
       /\ GeqZero(tu.normal[z]) # GeqZero(over.normal[z])
            => \A side \in { "star", "port" } :
                 DecorationColor(tu, c, side) # DecorationColor(over, c, side)

\* C5: DrawTurtle(color) paints the eyes exactly when normal.z >= 0 and the
\* cross-hair exactly when normal.z < 0.  Each side keeps its colour in both
\* cases: the starboard eye and the starboard cross-hair line are white, the
\* port eye and the port cross-hair line have the colour color.  What is
\* exchanged is the order: starboard eye then port eye (line width 2), port
\* line then starboard line (line width 1).
C5_Decorations ==
  \A t \in TurtleIds, c \in Colors :
    LET tu == turtles[t]
        g  == Glyph(tu, c)
    IN Decorations(tu, c) =
         IF GeqZero(tu.normal[z])
         THEN << Stroked(EyePath(tu, g, g.star), "white", 2),
                 Stroked(EyePath(tu, g, g.port), c, 2) >>
         ELSE << Stroked(HairPath(tu, g, g.port), c, 1),
                 Stroked(HairPath(tu, g, g.star), "white", 1) >>

\* a turtle that has been drawn upside down, with the cross-hair, and that
\* shows the eyes when turned over
C5_Witness ==
  /\ turtle = 1
  /\ ~ GeqZero(turtles[1].normal[z])
  /\ GeqZero(Dive(turtles[1], 180).self.normal[z])
  /\ Decorations(turtles[1], "red")[1][3] = "red"
  /\ Decorations(Dive(turtles[1], 180).self, "red")[1][3] = "white"

-----------------------------------------------------------------------------
\* C6: Move(d) sets position to position + (d * unit) * heading.  With the
\* pen active it paints exactly one stroke, from surface point (old.b, old.a)
\* to (new.b, new.a), in the pen style and pen width of the call, and no
\* other point appears in its commands; with the pen not active it issues no
\* command.
C6_Move ==
  \A t \in TurtleIds, d \in Dists :
    LET tu   == turtles[t]
        r    == Move(tu, d)
        new  == [ k \in x..z |->
                  Add(tu.position[k], Mul(Num(d * tu.unit), tu.heading[k])) ]
        ends == { Project(tu.position), Project(new) }
    IN /\ r.self.position = new
       /\ tu.pen =>
            /\ Looks(Painted(r.out)) =
                 << Stroked(Path(<< Project(tu.position), Project(new) >>, FALSE),
                            tu.penStyle, tu.penWidth) >>
            /\ \A i \in 1..Len(r.out) :
                 r.out[i].op \in { "moveTo", "lineTo" } => r.out[i].p \in ends
       /\ ~ tu.pen => r.out = << >>

\* a turtle that has drawn its way out of the surface's plane with a red pen
\* of width 3
C6_Witness ==
  /\ turtles[1].pen
  /\ turtles[1].penStyle = "red"
  /\ turtles[1].penWidth = 3
  /\ turtles[1].position[z] # turtles[1].home[z]
  /\ Len(Painted(Move(turtles[1], 1).out)) = 1

-----------------------------------------------------------------------------
\* C7: Dive(theta) sets normal to cos(theta) * normal + sin(theta) * heading
\* and heading to cross(left, new normal), with left = cross(normal, heading)
\* of the frame before the call; after the call cross(normal, heading) is
\* that same left, and left, normal and heading are orthonormal.
C7_Dive ==
  \A t \in TurtleIds, theta \in Angles :
    LET tu   == turtles[t]
        left == cross(tu.normal, tu.heading)
        nn   == [ k \in x..z |-> Add(Mul(Math_cos(theta), tu.normal[k]),
                                     Mul(Math_sin(theta), tu.heading[k])) ]
        r    == Dive(tu, theta).self
    IN /\ r.normal = nn
       /\ r.heading = cross(left, nn)
       /\ cross(r.normal, r.heading) = left
       /\ Orthonormal(left, r.normal)
       /\ Orthonormal(r.normal, r.heading)
       /\ Orthonormal(r.heading, left)

\* the frame after Dive(90) from the home frame, on which Dive acts again
C7_Witness ==
  /\ turtles[1].heading = IntVec(0, 0, 0 - 1)
  /\ turtles[1].normal = IntVec(0, 1, 0)
  /\ cross(turtles[1].normal, turtles[1].heading) = IntVec(0 - 1, 0, 0)
  /\ Dive(turtles[1], 90).self.heading = IntVec(0, 0 - 1, 0)

-----------------------------------------------------------------------------
\* C8: every DrawTurtle(color) call fills the starboard wing (nose, back,
\* starboard tip) with color and the port wing (nose, back, port tip) white;
\* with left = cross(normal, heading) it fills the fin face white and strokes
\* the fin's edge in color when left.z >= 0, and fills the fin face with
\* color and strokes the edge white when left.z < 0.
C8_FillPolicy ==
  \A t \in TurtleIds, c \in Colors :
    LET tu   == turtles[t]
        g    == Glyph(tu, c)
        left == cross(tu.normal, tu.heading)
        sh   == Painted(DrawTurtle(tu, c).out)
        fin  == FinPath(tu, g)
        IsWingFill(s) == s.kind = "fill" /\ s.path # fin
        IsFin(s) == s.path = fin
        fins == Looks(SelectSeq(sh, IsFin))
    IN /\ Looks(SelectSeq(sh, IsWingFill))
            = << Filled(StarPath(g), c), Filled(PortPath(g), "white") >>
       /\ Len(fins) = 2
       /\ IF GeqZero(left[z])
          THEN { fins[1], fins[2] } = { Filled(fin, "white"), Stroked(fin, c, 1) }
          ELSE { fins[1], fins[2] } = { Filled(fin, c), Stroked(fin, "white", 1) }

\* a turtle that has been drawn with its left side down and its fin up: the
\* fin face is filled in the colour of the call
C8_Witness ==
  /\ turtle = 1
  /\ ~ GeqZero(cross(turtles[1].normal, turtles[1].heading)[z])
  /\ turtles[1].normal[z] = Num(0)
  /\ \E i \in 1..8 :
       Look(Painted(DrawTurtle(turtles[1], "blue").out)[i])
         = Filled(FinPath(turtles[1], Glyph(turtles[1], "blue")), "blue")

-----------------------------------------------------------------------------
\* C9: Turn(phi) followed by Turn(-phi) restores heading, and Roll(psi)
\* followed by Roll(-psi) restores normal, from every reachable frame and for
\* every multiple of 90 degrees.
C9_TurnRollInverse ==
  \A t \in TurtleIds, phi \in Angles :
    LET tu == turtles[t]
    IN /\ Turn(Turn(tu, phi).self, 0 - phi).self.heading = tu.heading
       /\ Roll(Roll(tu, phi).self, 0 - phi).self.normal = tu.normal

\* a rolled-over turtle heading sideways, whose heading Turn(90) changes and
\* whose normal Roll(90) changes
C9_Witness ==
  /\ turtles[1].normal = IntVec(0, 0, 0 - 1)
  /\ turtles[1].heading[y] = Num(0)
  /\ Turn(turtles[1], 90).self.heading # turtles[1].heading
  /\ Roll(turtles[1], 90).self.normal # turtles[1].normal

-----------------------------------------------------------------------------
\* C10: Move(d) followed by Move(-d) returns position to its value before
\* the first Move, for d positive, zero or negative, pen active or not.
C10_MoveInverse ==
  \A t \in TurtleIds, d \in Dists :
    Move(Move(turtles[t], d).self, 0 - d).self.position = turtles[t].position

\* a turtle with the pen up that has moved backwards, on which Move(1) acts
C10_Witness ==
  /\ ~ turtles[1].pen
  /\ turtles[1].heading = IntVec(0, 1, 0)
  /\ turtles[1].position[y] = Sub(turtles[1].home[y], Num(turtles[1].unit))
  /\ Move(turtles[1], 1).self.position = turtles[1].home

-----------------------------------------------------------------------------
\* C12: each motion primitive changes only its own part of the frame: Turn
\* leaves normal and position as they are, Roll leaves heading and position,
\* Move leaves heading and normal, Dive leaves position; Turn, Roll and Dive
\* issue no surface command.
C12_FrameEffect ==
  \A t \in TurtleIds :
    LET tu == turtles[t] IN
    /\ \A phi \in Angles :
         LET r == Turn(tu, phi)
         IN r.self.normal = tu.normal /\ r.self.position = tu.position
            /\ r.out = << >>
    /\ \A psi \in Angles :
         LET r == Roll(tu, psi)
         IN r.self.heading = tu.heading /\ r.self.position = tu.position
            /\ r.out = << >>
    /\ \A theta \in Angles :
         LET r == Dive(tu, theta)
         IN r.self.position = tu.position /\ r.out = << >>
    /\ \A d \in Dists :
         LET r == Move(tu, d)
         IN r.self.heading = tu.heading /\ r.self.normal = tu.normal

\* a turtle away from home, in a frame Roll and Dive have produced, on which
\* Turn, Roll and Move each change their own part
C12_Witness ==
  /\ turtles[1].position # turtles[1].home
  /\ turtles[1].normal = IntVec(0, 1, 0)
  /\ turtles[1].heading = IntVec(1, 0, 0)
  /\ Turn(turtles[1], 90).self.heading # turtles[1].heading
  /\ Roll(turtles[1], 90).self.normal # turtles[1].normal
  /\ Move(turtles[1], 1).self.position # turtles[1].position

-----------------------------------------------------------------------------
\* the pen of a turtle and its pose
Pen(tu) == << tu.pen, tu.penStyle, tu.penWidth >>

Pose(tu) == << tu.position, tu.heading, tu.normal >>

\* C13: PenUp, PenDown, PenActive(b), SetPenWidth(n) and SetPenStyle(c)
\* change only the pen's active flag, width or style respectively, leave
\* position, heading and normal as they are and issue no surface command;
\* Home, Move, Turn, Roll, Dive, Segment and DrawTurtle never change the
\* pen's active flag, style or width.
C13_PenIndependent ==
  \A t \in TurtleIds :
    LET tu == turtles[t]
        \* the call with result r changes at most what tu and want differ in
        Only(r, want) == r.self = [ want EXCEPT !.log = r.self.log ] /\ r.out = << >>
    IN
    /\ Only(PenUp(tu), [ tu EXCEPT !.pen = FALSE ])
    /\ Only(PenDown(tu), [ tu EXCEPT !.pen = TRUE ])
    /\ \A b \in BOOLEAN : Only(PenActive(tu, b), [ tu EXCEPT !.pen = b ])
    /\ \A w \in PenWidths : Only(SetPenWidth(tu, w), [ tu EXCEPT !.penWidth = w ])
    /\ \A c \in PenStyles : Only(SetPenStyle(tu, c), [ tu EXCEPT !.penStyle = c ])
    /\ Pen(Home(tu).self) = Pen(tu)
    /\ \A d \in Dists : Pen(Move(tu, d).self) = Pen(tu)
    /\ \A a \in Angles :
         /\ Pen(Turn(tu, a).self) = Pen(tu)
         /\ Pen(Roll(tu, a).self) = Pen(tu)
         /\ Pen(Dive(tu, a).self) = Pen(tu)
    /\ \A d \in SegDists, psi \in SegAngles, phi \in SegAngles :
         Pen(Segment(tu, d, psi, phi).self) = Pen(tu)
    /\ \A c \in Colors : Pen(DrawTurtle(tu, c).self) = Pen(tu)

\* a turtle away from home in a turned frame, with the pen up, red and of
\* width 3: the pen calls and the other calls have acted
C13_Witness ==
  /\ Pen(turtles[1]) = << FALSE, "red", 3 >>
  /\ turtles[1].position # turtles[1].home
  /\ turtles[1].heading = IntVec(0, 0, 1)
  /\ PenDown(turtles[1]).self.pen

-----------------------------------------------------------------------------
\* four calls of the method Call(_, 90) one after the other
FourTimes(Call90(_), tu) == Call90(Call90(Call90(Call90(tu))))

\* C20: Dive(theta) followed by Dive(-theta) restores heading and normal, and
\* four successive Dive(90), four successive Turn(90) and four successive
\* Roll(90) each return heading and normal to their starting values, from
\* every reachable frame and for multiples of 90 degrees.
C20_DiveInverse ==
  \A t \in TurtleIds :
    LET tu == turtles[t]
        Frame(u) == << u.heading, u.normal >>
        Dive90(u) == Dive(u, 90).self
        Turn90(u) == Turn(u, 90).self
        Roll90(u) == Roll(u, 90).self
    IN /\ \A theta \in Angles :
            Frame(Dive(Dive(tu, theta).self, 0 - theta).self) = Frame(tu)
       /\ Frame(FourTimes(Dive90, tu)) = Frame(tu)
       /\ Frame(FourTimes(Turn90, tu)) = Frame(tu)
       /\ Frame(FourTimes(Roll90, tu)) = Frame(tu)

\* a frame two calls of Dive(90) reach from the home frame (upside down,
\* heading back), which Dive(90) changes again
C20_Witness ==
  /\ turtles[1].heading = IntVec(0, 0 - 1, 0)
  /\ turtles[1].normal = IntVec(0, 0, 0 - 1)
  /\ Dive(turtles[1], 90).self.heading = IntVec(0, 0, 1)
  /\ Dive(turtles[1], 90).self.normal = IntVec(0, 0 - 1, 0)

-----------------------------------------------------------------------------
\* the positions in out of the commands that paint, in order
Paints(out) ==
  SelectSeq([ i \in 1..Len(out) |-> i ],
            LAMBDA i : out[i].op \in { "fill", "stroke" })

\* C19: within one DrawTurtle call the fin's face and edge are painted next
\* to each other, with no command of a wing between them: the face is filled
\* first and the edge stroked second when left.z >= 0, the edge is stroked
\* first and the face filled second when left.z < 0.
C19_FinAdjacent ==
  \A t \in TurtleIds, c \in Colors :
    LET tu   == turtles[t]
        g    == Glyph(tu, c)
        left == cross(tu.normal, tu.heading)
        out  == DrawTurtle(tu, c).out
        sh   == Painted(out)
        at   == Paints(out)
        fin  == FinPath(tu, g)
        pts  == { Project(tu.position), Project(g.fin), Project(g.back) }
    IN \E k \in 1..(Len(sh) - 1) :
         /\ \A i \in 1..Len(sh) : sh[i].path = fin <=> i \in { k, k + 1 }
         /\ << Look(sh[k]), Look(sh[k + 1]) >> =
              IF GeqZero(left[z])
              THEN << Filled(fin, "white"), Stroked(fin, c, 1) >>
              ELSE << Stroked(fin, "white", 1), Filled(fin, c) >>
         /\ \A i \in (at[k] + 1)..(at[k + 1] - 1) :
              /\ out[i].op \notin { "save", "restore", "lineWidth" }
              /\ out[i].op \in { "moveTo", "lineTo" } => out[i].p \in pts

\* a turtle drawn with its left side down: the fin's edge is painted right
\* before its face
C19_Witness ==
  /\ turtle = 1
  /\ ~ GeqZero(cross(turtles[1].normal, turtles[1].heading)[z])
  /\ LET sh == Painted(DrawTurtle(turtles[1], "red").out)
     IN \E k \in 1..7 :
          /\ sh[k].kind = "stroke" /\ sh[k + 1].kind = "fill"
          /\ sh[k + 1].color = "red"
          /\ sh[k].path = sh[k + 1].path

-----------------------------------------------------------------------------
\* the call a log line spells out, made on tu: the line names the method and
\* prints its argument (a number, true or false, or a quoted colour)
Replayed(tu, e) ==
  CASE e.op = "Home"        -> Home(tu)
    [] e.op = "PenActive"   -> PenActive(tu, e.s = "true")
    [] e.op = "PenDown"     -> PenDown(tu)
    [] e.op = "PenUp"       -> PenUp(tu)
    [] e.op = "SetPenWidth" -> SetPenWidth(tu, e.n)
    [] e.op = "SetPenStyle" -> SetPenStyle(tu, e.s)
    [] e.op = "Move"        -> Move(tu, e.n)
    [] e.op = "Turn"        -> Turn(tu, e.n)
    [] e.op = "Roll"        -> Roll(tu, e.n)
    [] e.op = "Dive"        -> Dive(tu, e.n)
    [] e.op = "DrawTurtle"  -> DrawTurtle(tu, e.s)

\* the lines of log from the i-th on, run on turtle r.self after commands r.out
RECURSIVE Replay(_, _, _)
Replay(r, log, i) ==
  IF i > Len(log) THEN r
  ELSE LET n == Replayed(r.self, log[i])
       IN Replay([ self |-> n.self, out |-> r.out \o n.out ], log, i + 1)

\* a freshly constructed turtle with the unit, canvas and home of tu
Fresh(tu) ==
  [ Home([ tu EXCEPT !.log = << >>, !.logging = FALSE, !.pen = TRUE,
                     !.penStyle = "black", !.penWidth = 2 ]).self
      EXCEPT !.logging = TRUE ]

\* the call with result r appends exactly the lines es to the log of tu
Appends(tu, r, es) == r.self.log = tu.log \o es

\* C18: with logging on, each call of Home, the pen controls, Move, Turn,
\* Roll, Dive, Segment and DrawTurtle appends its line after all earlier
\* lines and alters none of them (Segment appends the lines of Move, Roll
\* and Turn and none of its own); and running the logged lines in order on a
\* fresh turtle with the same unit and home gives the same position,
\* heading, normal and pen and the same sequence of surface commands.
C18_LogFaithful ==
  \A t \in { u \in TurtleIds : turtles[u].logging } :
    LET tu == turtles[t]
        re == Replay([ self |-> Fresh(tu), out |-> << >> ], tu.log, 1)
    IN /\ re.self = tu
       /\ t = 1 => re.out = issued
       /\ Appends(tu, Home(tu), << Entry("Home", 0, "") >>)
       /\ Appends(tu, PenDown(tu), << Entry("PenDown", 0, "") >>)
       /\ Appends(tu, PenUp(tu), << Entry("PenUp", 0, "") >>)
       /\ Appends(tu, PenActive(tu, TRUE), << Entry("PenActive", 0, "true") >>)
       /\ Appends(tu, PenActive(tu, FALSE), << Entry("PenActive", 0, "false") >>)
       /\ \A w \in LogWidths :
            Appends(tu, SetPenWidth(tu, w), << Entry("SetPenWidth", w, "") >>)
       /\ \A c \in LogStyles :
            Appends(tu, SetPenStyle(tu, c), << Entry("SetPenStyle", 0, c) >>)
       /\ \A d \in LogDists :
            Appends(tu, Move(tu, d), << Entry("Move", d, "") >>)
       /\ \A a \in LogAngles :
            /\ Appends(tu, Turn(tu, a), << Entry("Turn", a, "") >>)
            /\ Appends(tu, Roll(tu, a), << Entry("Roll", a, "") >>)
            /\ Appends(tu, Dive(tu, a), << Entry("Dive", a, "") >>)
       /\ \A d \in LogDists, psi \in LogAngles, phi \in LogAngles :
            Appends(tu, Segment(tu, d, psi, phi),
                    << Entry("Move", d, ""), Entry("Roll", psi, ""),
                       Entry("Turn", phi, "") >>)
       /\ \A c \in LogColors :
            Appends(tu, DrawTurtle(tu, c), << Entry("DrawTurtle", 0, c) >>)

\* a log of three lines, of a turtle that has drawn a line with the pen down,
\* turned and been drawn, and whose replay issues the commands issued
C18_Witness ==
  /\ Len(turtles[1].log) = 3
  /\ turtles[1].log[1].op = "Move"
  /\ turtles[1].log[2].op = "Dive"
  /\ turtles[1].log[3].op = "DrawTurtle"
  /\ Len(issued) > 10
  /\ Replay([ self |-> Fresh(turtles[1]), out |-> << >> ], turtles[1].log, 1).out
       = issued

-----------------------------------------------------------------------------
\* C11: Segment(d, psi, phi) is Move(d); Roll(psi); Turn(phi): from every
\* state it gives the same turtle (position, heading, normal, pen and log)
\* and the same surface commands in the same order as the three calls made
\* one after the other.
C11_Segment ==
  \A t \in TurtleIds, d \in SegDists, psi \in SegAngles, phi \in SegAngles :
    LET tu == turtles[t]
        s  == Segment(tu, d, psi, phi)
        m  == Move(tu, d)
        r  == Roll(m.self, psi)
        u  == Turn(r.self, phi)
    IN /\ s.self = u.self
       /\ s.out = m.out \o r.out \o u.out
       /\ Drawn(ctx, s.out) = Drawn(Drawn(Drawn(ctx, m.out), r.out), u.out)

\* a turtle with a red pen down, in the pose Segment(1, 90, 90) gives from
\* the home pose, on which Segment draws, rolls and turns again
C11_Witness ==
  /\ turtles[1].pen
  /\ turtles[1].penStyle = "red"
  /\ Pose(turtles[1]) = Pose(Segment(Home(turtles[1]).self, 1, 90, 90).self)
  /\ turtles[1].position # turtles[1].home
  /\ Segment(turtles[1], 1, 90, 90).self.normal # turtles[1].normal
  /\ Len(Segment(turtles[1], 1, 90, 90).out) > 0
  /\ Segment(turtles[1], 1, 90, 90).self.heading # turtles[1].heading

-----------------------------------------------------------------------------
\* a vector or surface point holds NaN
HasNaN(v) == \E k \in DOMAIN v : isNaN(v[k])

\* the call with result r on tu is refused: the pose is as before and no
\* command carries NaN
Refused(tu, r) ==
  /\ Pose(r.self) = Pose(tu)
  /\ \A i \in 1..Len(r.out) : ~ HasNaN(r.out[i].p)

\* C14 as stated: Move, Turn, Roll and Dive called with a non-finite argument
\* fail: position, heading and normal keep their values and no command
\* carrying the non-finite value reaches the surface.
C14_NonFiniteRefused ==
  \A t \in TurtleIds :
    LET tu == turtles[t]
    IN /\ Refused(tu, Move(tu, NaNArg))
       /\ Refused(tu, Turn(tu, NaNArg))
       /\ Refused(tu, Roll(tu, NaNArg))
       /\ Refused(tu, Dive(tu, NaNArg))

-----------------------------------------------------------------------------
\* C15: cross(u, v) is the cross product
\* (u.b*v.c - u.c*v.b, u.c*v.a - u.a*v.c, u.a*v.b - u.b*v.a) for every pair
\* of vectors with whole coordinates up to MaxCoord; cross((0,0,1), (1,0,0))
\* is (0,1,0); and cross(u, v) = -cross(v, u).
C15_Cross ==
  crossed.result # << >> =>
    LET u == crossed.u
        v == crossed.v
        U == IntVec(u[1], u[2], u[3])
        V == IntVec(v[1], v[2], v[3])
    IN /\ crossed.result = IntVec(u[2] * v[3] - u[3] * v[2],
                                  u[3] * v[1] - u[1] * v[3],
                                  u[1] * v[2] - u[2] * v[1])
       /\ (u = << 0, 0, 1 >> /\ v = << 1, 0, 0 >>)
            => crossed.result = IntVec(0, 1, 0)
       /\ crossed.result = [ k \in x..z |-> Neg(cross(V, U)[k]) ]

\* the call Test() makes: cross([0, 0, 1], [1, 0, 0]) has returned [0, 1, 0]
C15_Witness ==
  /\ crossed.u = << 0, 0, 1 >>
  /\ crossed.v = << 1, 0, 0 >>
  /\ crossed.result = IntVec(0, 1, 0)

-----------------------------------------------------------------------------
\* C16: the stack of defaults always holds at least one entry, and
\* PopDefaults on a one-entry stack changes nothing; PushDefaults(def), then
\* any SetDefaults calls (none, one or two here), then PopDefaults() leave
\* GetDefaults() at the canvasID and unit of before the PushDefaults;
\* SetDefaults changes only the properties def names, of the top entry, and
\* no entry below it.
C16_DefaultsScoped ==
  /\ Len(defaults) >= 1
  /\ Len(defaults) = 1 => PopDefaults(defaults) = defaults
  /\ \A def \in Defs :
       LET pushed == PushDefaults(defaults, def)
           set    == SetDefaults(defaults, def)
           n      == Len(defaults)
       IN /\ GetDefaults(PopDefaults(pushed)) = GetDefaults(defaults)
          /\ \A d1 \in Defs :
               /\ GetDefaults(PopDefaults(SetDefaults(pushed, d1)))
                    = GetDefaults(defaults)
               /\ \A d2 \in Defs :
                    /\ GetDefaults(PopDefaults(SetDefaults(SetDefaults(pushed, d1), d2)))
                         = GetDefaults(defaults)
                    /\ PopDefaults(SetDefaults(SetDefaults(pushed, d1), d2)) = defaults
          /\ Len(set) = n
          /\ \A k \in 1..(n - 1) : set[k] = defaults[k]
          /\ set[n].canvasID = IF def.canvasID # "" THEN def.canvasID
                               ELSE defaults[n].canvasID
          /\ set[n].unit = IF def.unit # 0 THEN def.unit ELSE defaults[n].unit

\* a stack of two entries: the lower one as SetDefaults left it, the upper
\* one pushed and set to other values
C16_Witness ==
  /\ Len(defaults) = 2
  /\ defaults[1] = [ canvasID |-> "TGexample1", unit |-> 30 ]
  /\ defaults[2] = [ canvasID |-> "TGexample2", unit |-> 20 ]
  /\ GetDefaults(PopDefaults(defaults)) = defaults[1]

-----------------------------------------------------------------------------
\* C17 as stated: a DrawTurtle call changes nothing but the surface and the
\* log of the turtle it is called on: that turtle's position, heading,
\* normal, pen, home and unit, every other turtle, the stack of defaults and
\* the global variable named turtle are after the call what they were before.
C17_OnlyDraws ==
  [][ \A t \in TurtleIds, c \in Colors :
        DrawTurtleCall(t, c) =>
          /\ turtles' = [ turtles EXCEPT ![t].log = turtles'[t].log ]
          /\ defaults' = defaults
          /\ turtle' = turtle ]_vars

=============================================================================
